---- MODULE Spec2Model ----
(***************************************************************************)
(* A model of openclaw-setup.js: the setup wizard (main and its steps),    *)
(* the wallet entry points (generateNewWallet, importFromPrivateKey,       *)
(* importFromSeedPhrase, connectHardwareWallet) and the credential vault   *)
(* (encryptKey).                                                           *)
(*                                                                         *)
(* Text is a sequence of one-character strings, a buffer a sequence of     *)
(* byte values 0..255.  The cryptographic primitives of the libraries the  *)
(* source calls (crypto, bip39, ed25519-hd-key, @solana/web3.js) are       *)
(* idealised: random bytes are fresh on every draw, PBKDF2 and AES-GCM are *)
(* symbolic terms that are equal only when built from equal parts, and the *)
(* key derivation is a fixed deterministic function into short buffers.    *)
(* The encodings (hex, base58, utf8, JSON) are computed as the libraries   *)
(* compute them.                                                           *)
(***************************************************************************)
EXTENDS Integers, Sequences, FiniteSets, TLC

VARIABLES
    rng,          \* number of buffers drawn from crypto.randomBytes so far
    sdk,          \* whether require() finds @solana/web3.js, bip39, ed25519-hd-key, bs58
    calls,        \* vault: the encryptKey calls made, [key, password, entry]
    attempt,      \* vault: the last decryption attempt and its result
    created,      \* keys: the wallets generateNewWallet returned
    lastCall,     \* keys: the last entry point called, [kind, input, result]
    flags,        \* wizard: the command line flags
    inquirer,     \* wizard: whether prompt() uses inquirer (else the readline fallback)
    config,       \* wizard: the configuration object in memory
    configFile,   \* wizard: ~/.openclaw/config.json
    walletFile,   \* wizard: ~/.openclaw/wallets/wallet.json
    pc,           \* wizard: where main is suspended, or how the process ended
    local,        \* wizard: the locals of the step that is running
    interrupted,  \* wizard: "no", or the suspension point the SIGINT handler ran at
    entryConfig,  \* wizard (history): config when the running step was entered
    disk0,        \* wizard (history): the two files when the process started
    seedLog,      \* wizard (history): the phrases mnemonicToSeedSync was called with
    shown         \* wizard (history): the seed phrase lines printed to the terminal

vaultVars == <<calls, attempt>>
keysVars == <<created, lastCall>>
wizardVars == <<flags, inquirer, config, configFile, walletFile, pc, local,
                interrupted, entryConfig, disk0, seedLog, shown>>
vars == <<rng, sdk, calls, attempt, created, lastCall, flags, inquirer, config,
          configFile, walletFile, pc, local, interrupted, entryConfig, disk0, seedLog,
          shown>>

(***************************************************************************)
(* Bounds of the model (not program constants).                            *)
(***************************************************************************)
\* Bytes of a signing seed (32 in ed25519); a secret key is seed ++ public key.
SeedLen == 1
\* Words of a mnemonic phrase (12 for 128 bits of entropy).
MnemonicWords == 3
\* encryptKey calls of one vault behaviour.
MaxCalls == 2

(***************************************************************************)
(* Program constants.                                                      *)
(***************************************************************************)
SaltBytes == 32
IvBytes == 16
Pbkdf2Iterations == 100000
DerivedKeyBytes == 32
MinPasswordLen == 8

\* The JavaScript value undefined where a text is expected: a token that is no
\* text (no element of a text is longer than one character).
undefined == << "<undefined>" >>
\* The JavaScript value null where an object is expected.
null == [null |-> TRUE]

IsString(x) == x # undefined

(***************************************************************************)
(* Hex: Buffer.prototype.toString('hex') and Buffer.from(text, 'hex').     *)
(***************************************************************************)
HexDigits == << "0", "1", "2", "3", "4", "5", "6", "7",
                "8", "9", "a", "b", "c", "d", "e", "f" >>
HexUpper == << "0", "1", "2", "3", "4", "5", "6", "7",
               "8", "9", "A", "B", "C", "D", "E", "F" >>

IsHexDigit(c) == \E i \in 1..16 : HexDigits[i] = c \/ HexUpper[i] = c
HexVal(c) == (CHOOSE i \in 1..16 : HexDigits[i] = c \/ HexUpper[i] = c) - 1

RECURSIVE ToHex(_)
\* buf.toString('hex'): two lowercase digits per byte.
ToHex(bytes) ==
    IF bytes = <<>> THEN <<>>
    ELSE << HexDigits[(Head(bytes) \div 16) + 1], HexDigits[(Head(bytes) % 16) + 1] >>
         \o ToHex(Tail(bytes))

RECURSIVE HexPairs(_)
\* Buffer.from(text, 'hex') on a string: decodes pairs of hex digits and stops,
\* without an error, at the first pair that is not two hex digits.
HexPairs(text) ==
    IF Len(text) < 2 THEN <<>>
    ELSE IF IsHexDigit(text[1]) /\ IsHexDigit(text[2])
         THEN << HexVal(text[1]) * 16 + HexVal(text[2]) >> \o HexPairs(SubSeq(text, 3, Len(text)))
         ELSE <<>>

\* Buffer.from(x, 'hex'): a TypeError when x is no string, else the lenient decoding.
BufferFromHex(text) ==
    IF ~IsString(text) THEN [ok |-> FALSE, bytes |-> <<>>]
    ELSE [ok |-> TRUE, bytes |-> HexPairs(text)]

(***************************************************************************)
(* Base58: bs58.encode and bs58.decode (base-x over the bitcoin alphabet). *)
(***************************************************************************)
Base58Alphabet ==
    << "1", "2", "3", "4", "5", "6", "7", "8", "9",
       "A", "B", "C", "D", "E", "F", "G", "H", "J", "K", "L", "M", "N",
       "P", "Q", "R", "S", "T", "U", "V", "W", "X", "Y", "Z",
       "a", "b", "c", "d", "e", "f", "g", "h", "i", "j", "k",
       "m", "n", "o", "p", "q", "r", "s", "t", "u", "v", "w", "x", "y", "z" >>

IsBase58Char(c) == \E i \in 1..58 : Base58Alphabet[i] = c
Base58Val(c) == (CHOOSE i \in 1..58 : Base58Alphabet[i] = c) - 1

RECURSIVE MulAdd(_, _, _, _)
\* num * m + carry, num a little-endian digit sequence in base b without
\* leading zeros (the empty sequence is zero).
MulAdd(num, m, carry, b) ==
    IF num = <<>>
    THEN IF carry = 0 THEN <<>> ELSE << carry % b >> \o MulAdd(<<>>, m, carry \div b, b)
    ELSE LET v == Head(num) * m + carry
         IN  << v % b >> \o MulAdd(Tail(num), m, v \div b, b)

RECURSIVE ToBase(_, _, _, _)
\* The big-endian digits src (base from) added into acc (little-endian, base to).
ToBase(src, from, to, acc) ==
    IF src = <<>> THEN acc
    ELSE ToBase(Tail(src), from, to, MulAdd(acc, from, Head(src), to))

Reverse(s) == [i \in 1..Len(s) |-> s[Len(s) + 1 - i]]

RECURSIVE LeadingCount(_, _)
LeadingCount(s, x) ==
    IF s = <<>> \/ Head(s) # x THEN 0 ELSE 1 + LeadingCount(Tail(s), x)

\* bs58.encode(bytes): one '1' per leading zero byte, then the number in base 58.
Bs58Encode(bytes) ==
    LET z == LeadingCount(bytes, 0)
        digits == Reverse(ToBase(bytes, 256, 58, <<>>))
    IN  [i \in 1..z |-> "1"] \o [i \in 1..Len(digits) |-> Base58Alphabet[digits[i] + 1]]

\* bs58.decode(text): throws when text is no string or holds a character outside
\* the alphabet; else one zero byte per leading '1', then the number in base 256.
Bs58Decode(text) ==
    IF ~IsString(text) \/ \E i \in 1..Len(text) : ~IsBase58Char(text[i])
    THEN [ok |-> FALSE, bytes |-> <<>>]
    ELSE LET z == LeadingCount(text, "1")
             vals == [i \in 1..Len(text) |-> Base58Val(text[i])]
             digits == Reverse(ToBase(vals, 58, 256, <<>>))
         IN  [ok |-> TRUE, bytes |-> [i \in 1..z |-> 0] \o digits]

(***************************************************************************)
(* utf8: the bytes cipher.update(key, 'utf8', ...) reads, and the text a   *)
(* decipher gives back, over the characters keys are written in.           *)
(***************************************************************************)
Utf8Chars == HexDigits \o << "g", "z", "!" >>
Utf8Codes == << 48, 49, 50, 51, 52, 53, 54, 55, 56, 57,
                97, 98, 99, 100, 101, 102, 103, 122, 33 >>

Utf8Encode(text) ==
    [i \in 1..Len(text) |-> Utf8Codes[CHOOSE j \in 1..Len(Utf8Chars) : Utf8Chars[j] = text[i]]]
Utf8Decode(bytes) ==
    [i \in 1..Len(bytes) |-> Utf8Chars[CHOOSE j \in 1..Len(Utf8Codes) : Utf8Codes[j] = bytes[i]]]

(***************************************************************************)
(* The credential vault: encryptKey, and the decryption that inverts it.   *)
(***************************************************************************)
\* crypto.randomBytes(n), the k-th draw of the process: never a value drawn before.
randomBytes(n, k) == [rand |-> k, len |-> n]

\* toString('hex') / Buffer.from(_, 'hex') of a buffer the model keeps symbolic.
HexOf(buf) == [hex |-> buf]
BytesOf(hexText) == hexText.hex

\* crypto.pbkdf2Sync(password, salt, iterations, keylen, digest).
pbkdf2Sync(password, salt, iterations, keylen, digest) ==
    [kdf |-> "pbkdf2", password |-> password, salt |-> salt,
     iterations |-> iterations, keylen |-> keylen, digest |-> digest]

\* The ciphertext of createCipheriv(algorithm, key, iv).update(plain) + final().
CipherText(algorithm, key, iv, plain) ==
    [algorithm |-> algorithm, key |-> key, iv |-> iv, plain |-> plain]
\* A mutant of AuthTag: the tag does not depend on the cipher key.
AuthTag_unkeyed(algorithm, key, iv, ciphertext) ==
    [tag |-> algorithm, key |-> [any |-> TRUE], iv |-> iv, over |-> ciphertext]

\* cipher.getAuthTag(): the tag of that key and iv over the ciphertext.
AuthTag(algorithm, key, iv, ciphertext) ==
    [tag |-> algorithm, key |-> key, iv |-> iv, over |-> ciphertext]

\* A mutant of encryptKey: the salt is derived from nothing random (one fixed salt).
encryptKey_fixedSalt(key, password, k) ==
    LET algorithm == "aes-256-gcm"
        salt == randomBytes(SaltBytes, 0)
        iv == randomBytes(IvBytes, k + 2)
        derivedKey == pbkdf2Sync(password, salt, Pbkdf2Iterations, DerivedKeyBytes, "sha256")
        encrypted == CipherText(algorithm, derivedKey, iv, Utf8Encode(key))
    IN  [encrypted |-> HexOf(encrypted), salt |-> HexOf(salt), iv |-> HexOf(iv),
         authTag |-> HexOf(AuthTag(algorithm, derivedKey, iv, encrypted))]

\* A mutant of encryptKey: the salt returned is not the salt the key was derived with.
encryptKey_otherSalt(key, password, k) ==
    LET algorithm == "aes-256-gcm"
        salt == randomBytes(SaltBytes, k + 1)
        iv == randomBytes(IvBytes, k + 2)
        derivedKey == pbkdf2Sync(password, salt, Pbkdf2Iterations, DerivedKeyBytes, "sha256")
        encrypted == CipherText(algorithm, derivedKey, iv, Utf8Encode(key))
    IN  [encrypted |-> HexOf(encrypted), salt |-> HexOf(randomBytes(SaltBytes, k + 2)),
         iv |-> HexOf(iv),
         authTag |-> HexOf(AuthTag(algorithm, derivedKey, iv, encrypted))]

\* encryptKey(key, password), called when k buffers have been drawn: it draws two.
encryptKey(key, password, k) ==
    LET algorithm == "aes-256-gcm"
        salt == randomBytes(SaltBytes, k + 1)
        iv == randomBytes(IvBytes, k + 2)
        derivedKey == pbkdf2Sync(password, salt, Pbkdf2Iterations, DerivedKeyBytes, "sha256")
        encrypted == CipherText(algorithm, derivedKey, iv, Utf8Encode(key))
        authTag == AuthTag(algorithm, derivedKey, iv, encrypted)
    IN  [encrypted |-> HexOf(encrypted), salt |-> HexOf(salt), iv |-> HexOf(iv),
         authTag |-> HexOf(authTag)]

\* pbkdf2Sync throws a TypeError when the password is undefined.
encryptKeyThrows(password) == ~IsString(password)

WrongPasswordOrCorrupted == "WrongPasswordOrCorrupted"

\* decrypt(entry, password): the key is derived again from the password and the
\* stored salt, the tag is verified, and only then is the plaintext returned.
decrypt(entry, password) ==
    LET algorithm == "aes-256-gcm"
        derivedKey == pbkdf2Sync(password, BytesOf(entry.salt), Pbkdf2Iterations,
                                 DerivedKeyBytes, "sha256")
        iv == BytesOf(entry.iv)
        ciphertext == BytesOf(entry.encrypted)
    IN  IF BytesOf(entry.authTag) = AuthTag(algorithm, derivedKey, iv, ciphertext)
        THEN [ok |-> TRUE, plain |-> Utf8Decode(ciphertext.plain), error |-> ""]
        ELSE [ok |-> FALSE, plain |-> undefined, error |-> WrongPasswordOrCorrupted]

(***************************************************************************)
(* Mnemonics (bip39), derivation (ed25519-hd-key) and keypairs             *)
(* (@solana/web3.js Keypair), scaled to MnemonicWords words and SeedLen    *)
(* bytes.  A phrase is the sequence of its words.                          *)
(***************************************************************************)
Wordlist == << "abandon", "ability", "able", "about" >>
IsWord(w) == \E i \in 1..Len(Wordlist) : Wordlist[i] = w
WordIndex(w) == (CHOOSE i \in 1..Len(Wordlist) : Wordlist[i] = w) - 1

RECURSIVE SumSeq(_)
SumSeq(s) == IF s = <<>> THEN 0 ELSE Head(s) + SumSeq(Tail(s))

\* The entropy of a phrase: the word indices that are not the checksum word.
Entropies == [1..(MnemonicWords - 1) -> 0..(Len(Wordlist) - 1)]
ChecksumWord(entropy) == Wordlist[(SumSeq(entropy) % Len(Wordlist)) + 1]

\* bip39.entropyToMnemonic: the words of the entropy, then the checksum word.
entropyToMnemonic(entropy) ==
    [i \in 1..Len(entropy) |-> Wordlist[entropy[i] + 1]] \o << ChecksumWord(entropy) >>

\* bip39.validateMnemonic(phrase): false for a non-string, a wrong word count, a
\* word outside the wordlist, or a checksum that does not match.
validateMnemonic(phrase) ==
    /\ IsString(phrase)
    /\ Len(phrase) = MnemonicWords
    /\ \A i \in 1..Len(phrase) : IsWord(phrase[i])
    /\ phrase[MnemonicWords]
         = ChecksumWord([i \in 1..(MnemonicWords - 1) |-> WordIndex(phrase[i])])

\* bip39.mnemonicToSeedSync(phrase): the stretched seed; it validates nothing.
mnemonicToSeedSync(phrase) == [seedOf |-> phrase]

\* m/44'/501'/0'/0', the hardened indices of the path.
SolanaPath == << 44, 501, 0, 0 >>

RECURSIVE PhraseCode(_, _)
PhraseCode(words, acc) ==
    IF words = <<>> THEN acc
    ELSE PhraseCode(Tail(words),
                    (acc * 31 + (IF IsWord(Head(words)) THEN WordIndex(Head(words)) + 1 ELSE 7))
                        % 65536)
PathCode(path) == SumSeq([j \in 1..Len(path) |-> j * path[j]])

\* derivePath(path, seedHex).key: a deterministic function of the path and the seed.
derivePath(path, seedHex) ==
    [key |-> [i \in 1..SeedLen |->
                (PathCode(path) * 7 + PhraseCode(BytesOf(seedHex).seedOf, 0) * 13
                    + (i - 1) * 101) % 256]]

\* The ed25519 public key of a signing seed.
Ed25519Public(seed) == [i \in 1..Len(seed) |-> (seed[i] * 5 + 17 + (i - 1) * 29) % 256]

\* Keypair.fromSeed(seed): secretKey is seed ++ public key.
KeypairFromSeed(seed) ==
    [publicKey |-> Ed25519Public(seed), secretKey |-> seed \o Ed25519Public(seed)]

\* keypair.publicKey.toString(): base58.
PublicKeyToString(publicKey) == Bs58Encode(publicKey)

\* What a call returns or throws.
Return(v) == [threw |-> FALSE, message |-> "", value |-> v, seeded |-> {}]
Throw(msg) == [threw |-> TRUE, message |-> msg, value |-> null, seeded |-> {}]

\* A mutant of KeypairFromSecretKey: a key of any size is accepted.
KeypairFromSecretKey_anySize(secretKey) ==
    Return([publicKey |-> Ed25519Public(secretKey), secretKey |-> secretKey])

\* Keypair.fromSecretKey(secretKey): the size is checked, then the public half
\* against the key computed from the private half.
KeypairFromSecretKey(secretKey) ==
    IF Len(secretKey) # 2 * SeedLen THEN Throw("bad secret key size")
    ELSE IF SubSeq(secretKey, SeedLen + 1, 2 * SeedLen)
              # Ed25519Public(SubSeq(secretKey, 1, SeedLen))
         THEN Throw("provided secretKey is invalid")
         ELSE Return([publicKey |-> SubSeq(secretKey, SeedLen + 1, 2 * SeedLen),
                      secretKey |-> secretKey])

SdkRequired == "Solana SDK required"
InvalidKeyFormat == "Invalid private key format. Expected base58 or hex."
InvalidSeedPhrase == "Invalid seed phrase"

\* The wallet both mnemonic paths build from a phrase, along a derivation path.
WalletFromPhrase(phrase, path) ==
    LET seed == mnemonicToSeedSync(phrase)
        derivedSeed == derivePath(path, HexOf(seed)).key
        keypair == KeypairFromSeed(SubSeq(derivedSeed, 1, SeedLen))
    IN  [publicKey |-> PublicKeyToString(keypair.publicKey),
         base58Key |-> Bs58Encode(keypair.secretKey),
         rawSecretKey |-> keypair.secretKey]

\* A mutant of generateNewWallet: without the SDK a wallet is made all the same.
generateNewWallet_mock(hasSdk, entropy) ==
    LET seedPhrase == entropyToMnemonic(entropy)
        w == WalletFromPhrase(seedPhrase, SolanaPath)
    IN  [Return([publicKey |-> w.publicKey, seedPhrase |-> seedPhrase,
                 type |-> "local", network |-> "devnet",
                 base58Key |-> w.base58Key, rawSecretKey |-> w.rawSecretKey])
           EXCEPT !.seeded = {seedPhrase}]

\* generateNewWallet(), entropy being what bip39.generateMnemonic(128) drew.
generateNewWallet(hasSdk, entropy) ==
    IF ~hasSdk THEN Throw(SdkRequired)
    ELSE LET seedPhrase == entropyToMnemonic(entropy)
             w == WalletFromPhrase(seedPhrase, SolanaPath)
         IN  [Return([publicKey |-> w.publicKey, seedPhrase |-> seedPhrase,
                      type |-> "local", network |-> "devnet",
                      base58Key |-> w.base58Key, rawSecretKey |-> w.rawSecretKey])
                EXCEPT !.seeded = {seedPhrase}]

\* The bytes importFromPrivateKey decodes: base58, and hex only when bs58.decode
\* threw; the format error only when Buffer.from threw too.
DecodeSecretKey(privateKey) ==
    LET b58 == Bs58Decode(privateKey)
        hex == BufferFromHex(privateKey)
    IN  IF b58.ok THEN [ok |-> TRUE, bytes |-> b58.bytes, encoding |-> "base58"]
        ELSE IF hex.ok THEN [ok |-> TRUE, bytes |-> hex.bytes, encoding |-> "hex"]
        ELSE [ok |-> FALSE, bytes |-> <<>>, encoding |-> "none"]

\* importFromPrivateKey(privateKey).
importFromPrivateKey(hasSdk, privateKey) ==
    IF ~hasSdk THEN Throw(SdkRequired)
    ELSE LET secretKey == DecodeSecretKey(privateKey)
             keypair == KeypairFromSecretKey(secretKey.bytes)
         IN  IF ~secretKey.ok THEN Throw(InvalidKeyFormat)
             ELSE IF keypair.threw THEN keypair
             ELSE Return([publicKey |-> PublicKeyToString(keypair.value.publicKey),
                          type |-> "imported", network |-> "devnet",
                          base58Key |-> privateKey,
                          rawSecretKey |-> keypair.value.secretKey])

\* A mutant of importFromSeedPhrase: another derivation path than generateNewWallet's.
importFromSeedPhrase_otherPath(hasSdk, seedPhrase) ==
    IF ~hasSdk THEN Throw(SdkRequired)
    ELSE IF ~validateMnemonic(seedPhrase) THEN Throw(InvalidSeedPhrase)
    ELSE LET w == WalletFromPhrase(seedPhrase, << 44, 501, 0, 1 >>)
         IN  [Return([publicKey |-> w.publicKey, type |-> "imported", network |-> "devnet",
                      base58Key |-> w.base58Key, rawSecretKey |-> w.rawSecretKey])
                EXCEPT !.seeded = {seedPhrase}]

\* A mutant of importFromSeedPhrase: the phrase is not validated before derivation.
importFromSeedPhrase_noValidation(hasSdk, seedPhrase) ==
    IF ~hasSdk \/ ~IsString(seedPhrase) THEN Throw(SdkRequired)
    ELSE LET w == WalletFromPhrase(seedPhrase, SolanaPath)
         IN  [Return([publicKey |-> w.publicKey, type |-> "imported", network |-> "devnet",
                      base58Key |-> w.base58Key, rawSecretKey |-> w.rawSecretKey])
                EXCEPT !.seeded = {seedPhrase}]

\* importFromSeedPhrase(seedPhrase): validation, then the derivation of create.
importFromSeedPhrase(hasSdk, seedPhrase) ==
    IF ~hasSdk THEN Throw(SdkRequired)
    ELSE IF ~validateMnemonic(seedPhrase) THEN Throw(InvalidSeedPhrase)
    ELSE LET w == WalletFromPhrase(seedPhrase, SolanaPath)
         IN  [Return([publicKey |-> w.publicKey, type |-> "imported", network |-> "devnet",
                      base58Key |-> w.base58Key, rawSecretKey |-> w.rawSecretKey])
                EXCEPT !.seeded = {seedPhrase}]

(***************************************************************************)
(* Values shared by the specifications of this module.                     *)
(***************************************************************************)
\* Passwords: two of eight characters or more, one shorter.
PwdA == << "c", "o", "r", "r", "e", "c", "t", "1" >>
PwdB == << "w", "r", "o", "n", "g", "-", "p", "w", "2" >>
PwdShort == << "a", "b", "c" >>

\* No decryption attempted yet, no entry point called yet.
NoAttempt == [call |-> 0, password |-> <<>>, altered |-> "none",
              result |-> [ok |-> FALSE, plain |-> undefined, error |-> ""]]
NoCall == [kind |-> "none", input |-> <<>>, result |-> Throw("")]

(***************************************************************************)
(* The wizard: configuration, files and prompts.                           *)
(***************************************************************************)
\* A file that does not exist.
Absent == [absent |-> TRUE]
\* The object literal {}.
EmptyObject == [object |-> TRUE]
Has(o, k) == k \in DOMAIN o
\* { ...a, ...b }
Properties(o) == DOMAIN o \ { "object" }
Merge(a, b) ==
    IF Properties(a) \cup Properties(b) = {} THEN EmptyObject
    ELSE [k \in Properties(a) \cup Properties(b) |-> IF k \in DOMAIN b THEN b[k] ELSE a[k]]

\* An array of skill names, and a text where the code expects that array.
SkillsArray(names) == [array |-> names]
SkillsText(text) == [text |-> text]

\* The configuration object the module starts with.
DefaultConfig ==
    [version |-> "1.0.0", installed |-> FALSE, wallet |-> null,
     skills |-> SkillsArray({}), preferences |-> EmptyObject,
     onboardingComplete |-> FALSE]

\* JSON.stringify of a wallet record: a property whose value is undefined is left out.
JsonWallet(w) ==
    IF w = null THEN null
    ELSE IF Has(w, "publicKey") /\ w.publicKey = undefined
         THEN [k \in DOMAIN w \ {"publicKey"} |-> w[k]]
         ELSE w

\* JSON.stringify(config, null, 2), as the object JSON.parse reads back.
JsonStringify(c) == [c EXCEPT !.wallet = JsonWallet(c.wallet)]

\* saveConfig(): the new content of the configuration file.
saveConfig(c) == JsonStringify(c)

\* A mutant of loadConfig: the file is not read.
loadConfig_notRead(c, file) == c

\* loadConfig(): the file, when there is one, spread over the configuration.
loadConfig(c, file) == IF file = Absent THEN c ELSE Merge(c, file)

\* quickSetup(): what it assigns to the loaded configuration.
QuickConfig(c) ==
    [c EXCEPT !.installed = TRUE,
              !.onboardingComplete = TRUE,
              !.preferences = [userName |-> "user", mode |-> "intermediate",
                               telemetry |-> TRUE],
              !.skills = SkillsArray({"solana-agent-kit", "web-search"})]

\* new Date().toISOString() of this run, and of an earlier run.
Now == "now"
Earlier == "earlier"

\* The command lines of the model.
NoFlags == [help |-> FALSE, version |-> FALSE, quick |-> FALSE, skipInstall |-> FALSE,
            skipOnboarding |-> FALSE, skipWallet |-> FALSE]
FlagSets ==
    { NoFlags,
      [NoFlags EXCEPT !.help = TRUE],
      [NoFlags EXCEPT !.version = TRUE],
      [NoFlags EXCEPT !.quick = TRUE],
      [NoFlags EXCEPT !.skipInstall = TRUE],
      [NoFlags EXCEPT !.skipInstall = TRUE, !.skipOnboarding = TRUE],
      [NoFlags EXCEPT !.skipInstall = TRUE, !.skipOnboarding = TRUE, !.skipWallet = TRUE],
      [NoFlags EXCEPT !.quick = TRUE, !.skipWallet = TRUE] }

\* The wallet an earlier run created and saved.
EarlierWallet ==
    LET w == WalletFromPhrase(entropyToMnemonic([i \in 1..(MnemonicWords - 1) |-> 1]),
                              SolanaPath)
    IN  [publicKey |-> w.publicKey, network |-> "devnet", createdAt |-> Earlier,
         type |-> "local",
         encryptedKey |-> encryptKey(ToHex(w.rawSecretKey), PwdB, -2)]

\* The files a run can find: none, those of an earlier quick setup, those of an
\* earlier complete run.
Disks ==
    { [config |-> Absent, wallet |-> Absent],
      [config |-> saveConfig(QuickConfig(DefaultConfig)), wallet |-> Absent],
      [config |-> saveConfig([QuickConfig(DefaultConfig) EXCEPT !.wallet = EarlierWallet]),
       wallet |-> EarlierWallet] }

NotAsked == << "<not asked>" >>
NoLocals ==
    [installMethod |-> "", spinner |-> "", manageWallet |-> "", selectedSkills |-> SkillsArray({}), walletAction |-> "",
     walletData |-> EmptyObject, privateKey |-> NotAsked, seedPhrase |-> NotAsked,
     password |-> NotAsked, confirmPassword |-> NotAsked, error |-> ""]

\* prompt(): what a question of type list resolves to. inquirer returns the value
\* of a choice; the readline fallback returns the line typed, whatever it is.
ListAnswers(choices) == IF inquirer THEN choices ELSE choices \cup {"1"}

\* prompt(): what a question of type input or password resolves to when the user
\* types one of texts. inquirer returns the text; the fallback returns
\* input || q.default, here undefined for an empty line.
TextAnswers(texts) ==
    IF inquirer THEN texts ELSE { IF t = <<>> THEN undefined ELSE t : t \in texts }

InstallMethods == { "npm", "skip" }
OnboardingAnswers ==
    { [userName |-> "ada", mode |-> "beginner", telemetry |-> FALSE, newsletter |-> FALSE] }
\* What the checkbox question resolves to: an array with inquirer; with the
\* fallback the line typed, or undefined for an empty line.
NoSkills == [undefined |-> TRUE]
SkillAnswers ==
    IF inquirer THEN { SkillsArray({"solana-agent-kit"}) }
    ELSE { SkillsText("web-search"), NoSkills }

\* The places where main is suspended on a prompt or on a child process.
Prompts ==
    { "ask_proceed", "ask_depsContinue", "ask_reinstall", "ask_installMethod",
      "ask_installContinue", "ask_redo", "ask_onboarding", "ask_onboardingContinue",
      "ask_setupSkills", "ask_selectedSkills", "ask_skillsContinue",
      "ask_manageWallet", "ask_walletAction", "ask_privateKey", "ask_seedPhrase",
      "ask_hardwareKey", "ask_password", "ask_confirmPassword", "ask_network",
      "ask_walletContinue", "ask_configureAdvanced", "ask_advanced", "ask_launchNow" }
Awaits == { "await_install", "await_skills", "await_launch" }
SuspensionPoints == Prompts \cup Awaits

\* The state of the parts of this module a specification leaves alone.
VaultIdle == calls = <<>> /\ attempt = NoAttempt
KeysIdle == created = {} /\ lastCall = NoCall
WizardIdle ==
    /\ flags = NoFlags
    /\ inquirer = TRUE
    /\ disk0 = [config |-> Absent, wallet |-> Absent]
    /\ configFile = Absent
    /\ walletFile = Absent
    /\ config = DefaultConfig
    /\ pc = "done"
    /\ local = NoLocals
    /\ interrupted = "no"
    /\ entryConfig = DefaultConfig
    /\ seedLog = {}
    /\ shown = <<>>

\* The variables no wizard action changes.
fixedVars == <<sdk, flags, inquirer, disk0, calls, attempt, created, lastCall>>

Init ==
    /\ flags \in FlagSets
    /\ inquirer \in BOOLEAN
    /\ sdk \in BOOLEAN
    /\ disk0 \in Disks
    /\ configFile = disk0.config
    /\ walletFile = disk0.wallet
    /\ config = DefaultConfig
    /\ pc = "main"
    /\ local = NoLocals
    /\ interrupted = "no"
    /\ entryConfig = DefaultConfig
    /\ seedLog = {}
    /\ shown = <<>>
    /\ rng = 0
    /\ VaultIdle
    /\ KeysIdle

\* main(): the steps it awaits, in the order it awaits them.
Steps ==
    << "stepWelcome", "stepCheckDependencies", "stepInstallOpenClaw", "stepOnboarding",
       "stepSkillsSetup", "stepWalletSetup", "stepFinalConfiguration", "stepSummary" >>
StepNumber(step) == CHOOSE i \in 1..Len(Steps) : Steps[i] = step

\* A mutant of ReturnFrom: after the wallet step main awaits the skills step again.
ReturnFrom_again(step) ==
    IF step = "stepWalletSetup" THEN "stepSkillsSetup"
    ELSE IF StepNumber(step) = Len(Steps) THEN "done"
    ELSE Steps[StepNumber(step) + 1]

\* A step returns: main goes on to the step it awaits next, and returns after the
\* last one.
ReturnFrom(step) ==
    IF StepNumber(step) = Len(Steps) THEN "done" ELSE Steps[StepNumber(step) + 1]

\* A step is entered: its locals are fresh, and the configuration is remembered.
Enter(next) ==
    /\ pc' = next
    /\ local' = NoLocals
    /\ entryConfig' = config
    /\ UNCHANGED <<config, configFile, walletFile, interrupted, seedLog, shown, rng, fixedVars>>

\* The running step goes on to next, changing nothing else.
Goto(next) ==
    /\ pc' = next
    /\ UNCHANGED <<config, configFile, walletFile, local, interrupted, entryConfig,
                   seedLog, shown, rng, fixedVars>>

\* A mutant of SaveAndGoto: the configuration is assigned and not saved.
SaveAndGoto_notSaved(c, next) ==
    /\ config' = c
    /\ pc' = next
    /\ UNCHANGED <<configFile, walletFile, local, interrupted, entryConfig, seedLog, shown,
                   rng, fixedVars>>

\* The running step assigns the configuration, saves it and goes on to next.
SaveAndGoto(c, next) ==
    /\ config' = c
    /\ configFile' = saveConfig(c)
    /\ pc' = next
    /\ UNCHANGED <<walletFile, local, interrupted, entryConfig, seedLog, shown, rng, fixedVars>>

(***************************************************************************)
(* main and the steps before the wallet.                                   *)
(***************************************************************************)
\* main(), to its first step: --help, --version and --quick end the process.
Main ==
    /\ pc = "main"
    /\ IF flags.help \/ flags.version
       THEN Goto("exit0")
       ELSE IF flags.quick
            THEN SaveAndGoto(QuickConfig(loadConfig(config, configFile)), "exit0")
            ELSE /\ config' = loadConfig(config, configFile)
                 /\ pc' = Steps[1]
                 /\ UNCHANGED <<configFile, walletFile, local, interrupted, entryConfig,
                                seedLog, shown, rng, fixedVars>>

stepWelcome ==
    /\ pc = "stepWelcome"
    /\ Enter(IF flags.skipInstall THEN ReturnFrom("stepWelcome") ELSE "ask_proceed")

AnswerProceed ==
    /\ pc = "ask_proceed"
    /\ \E proceed \in BOOLEAN :
           Goto(IF proceed THEN ReturnFrom("stepWelcome") ELSE "exit0")

stepCheckDependencies ==
    /\ pc = "stepCheckDependencies"
    /\ IF flags.skipInstall
       THEN Enter(ReturnFrom("stepCheckDependencies"))
       ELSE \E missingRequired \in BOOLEAN :
                Enter(IF missingRequired THEN "exit1" ELSE "ask_depsContinue")

AnswerDepsContinue ==
    /\ pc = "ask_depsContinue"
    /\ Goto(ReturnFrom("stepCheckDependencies"))

stepInstallOpenClaw ==
    /\ pc = "stepInstallOpenClaw"
    /\ Enter(IF flags.skipInstall THEN ReturnFrom("stepInstallOpenClaw")
             ELSE IF config.installed THEN "ask_reinstall"
             ELSE "ask_installMethod")

AnswerReinstall ==
    /\ pc = "ask_reinstall"
    /\ \E reinstall \in BOOLEAN :
           Goto(IF reinstall THEN "ask_installMethod" ELSE ReturnFrom("stepInstallOpenClaw"))

AnswerInstallMethod ==
    /\ pc = "ask_installMethod"
    /\ \E installMethod \in ListAnswers(InstallMethods) :
           /\ local' = [local EXCEPT !.installMethod = installMethod]
           /\ pc' = IF installMethod = "skip" THEN ReturnFrom("stepInstallOpenClaw")
                    ELSE "await_install"
           /\ UNCHANGED <<config, configFile, walletFile, interrupted, entryConfig,
                          seedLog, shown, rng, fixedVars>>

\* A mutant of Installed: the flag is set whether or not the commands succeeded.
Installed_always(c, installMethod, succeeded) ==
    Merge(c, [installed |-> TRUE, installMethod |-> installMethod])

\* The configuration after the install commands: the flag and the method are
\* assigned at the end of the try, which a failed command leaves early.
Installed(c, installMethod, succeeded) ==
    IF succeeded THEN Merge(c, [installed |-> TRUE, installMethod |-> installMethod])
    ELSE c

\* The install commands have ended: on success the spinner succeeds, the flag is
\* set and the configuration saved; on failure the spinner fails. The last
\* prompt of the step follows.
InstallFinished ==
    /\ pc = "await_install"
    /\ \E succeeded \in BOOLEAN :
           /\ config' = Installed(config, local.installMethod, succeeded)
           /\ configFile' = IF succeeded THEN saveConfig(config') ELSE configFile
           /\ local' = [local EXCEPT !.spinner = IF succeeded THEN "succeed" ELSE "fail"]
           /\ pc' = "ask_installContinue"
           /\ UNCHANGED <<walletFile, interrupted, entryConfig, seedLog, shown, rng,
                          fixedVars>>

AnswerInstallContinue ==
    /\ pc = "ask_installContinue"
    /\ Goto(ReturnFrom("stepInstallOpenClaw"))

stepOnboarding ==
    /\ pc = "stepOnboarding"
    /\ Enter(IF flags.skipOnboarding THEN ReturnFrom("stepOnboarding")
             ELSE IF config.onboardingComplete THEN "ask_redo"
             ELSE "ask_onboarding")

AnswerRedo ==
    /\ pc = "ask_redo"
    /\ \E redo \in BOOLEAN :
           Goto(IF redo THEN "ask_onboarding" ELSE ReturnFrom("stepOnboarding"))

AnswerOnboarding ==
    /\ pc = "ask_onboarding"
    /\ \E answers \in OnboardingAnswers :
           SaveAndGoto([config EXCEPT !.preferences = Merge(@, answers),
                                      !.onboardingComplete = TRUE],
                       "ask_onboardingContinue")

AnswerOnboardingContinue ==
    /\ pc = "ask_onboardingContinue"
    /\ Goto(ReturnFrom("stepOnboarding"))

stepSkillsSetup ==
    /\ pc = "stepSkillsSetup"
    /\ Enter("ask_setupSkills")

AnswerSetupSkills ==
    /\ pc = "ask_setupSkills"
    /\ \E setupSkills \in BOOLEAN :
           Goto(IF setupSkills THEN "ask_selectedSkills" ELSE ReturnFrom("stepSkillsSetup"))

\* selectedSkills.includes(...) throws on undefined, inside the try: the step goes
\* to its last prompt. Else the manifests are written, with a pause after each.
AnswerSelectedSkills ==
    /\ pc = "ask_selectedSkills"
    /\ \E selectedSkills \in SkillAnswers :
           IF selectedSkills = NoSkills
           THEN Goto("ask_skillsContinue")
           ELSE /\ local' = [local EXCEPT !.selectedSkills = selectedSkills]
                /\ pc' = "await_skills"
                /\ UNCHANGED <<config, configFile, walletFile, interrupted, entryConfig,
                               seedLog, shown, rng, fixedVars>>

SkillsFinished ==
    /\ pc = "await_skills"
    /\ \E succeeded \in BOOLEAN :
           IF succeeded
           THEN SaveAndGoto([config EXCEPT !.skills = local.selectedSkills],
                            "ask_skillsContinue")
           ELSE Goto("ask_skillsContinue")

AnswerSkillsContinue ==
    /\ pc = "ask_skillsContinue"
    /\ Goto(ReturnFrom("stepSkillsSetup"))

(***************************************************************************)
(* The wallet step.                                                        *)
(***************************************************************************)
\* o.k of an object that may not have the property.
Get(o, k) == IF Has(o, k) THEN o[k] ELSE undefined

WalletFields == { "publicKey", "network", "createdAt", "type", "encryptedKey" }

\* A mutant of WalletConfig: what the entry point returned is spread into the record.
WalletConfig_spread(walletData, encryptedData) ==
    Merge(walletData,
          [publicKey |-> Get(walletData, "publicKey"),
           network |-> IF Has(walletData, "network") THEN walletData.network ELSE "devnet",
           createdAt |-> Now,
           type |-> IF Has(walletData, "type") THEN walletData.type ELSE "local",
           encryptedKey |-> encryptedData])

\* The walletConfig literal of stepWalletSetup.
WalletConfig(walletData, encryptedData) ==
    [publicKey |-> Get(walletData, "publicKey"),
     network |-> IF Has(walletData, "network") THEN walletData.network ELSE "devnet",
     createdAt |-> Now,
     type |-> IF Has(walletData, "type") THEN walletData.type ELSE "local",
     encryptedKey |-> encryptedData]

\* What the user may type at the prompts of the wallet step.
WizardEntropies == { [i \in 1..(MnemonicWords - 1) |-> 0],
                     [i \in 1..(MnemonicWords - 1) |-> IF i = 1 THEN 2 ELSE 1] }
WizardKey == WalletFromPhrase(entropyToMnemonic([i \in 1..(MnemonicWords - 1) |-> 3]),
                              SolanaPath)
\* The base58 text of one byte more than a secret key has.
LongKey == Bs58Encode([i \in 1..(2 * SeedLen + 1) |-> i])
PrivateKeyInputs == { WizardKey.base58Key, ToHex(WizardKey.rawSecretKey), LongKey,
                      << "z", "z", "!", "!" >>, <<>> }
SeedPhraseInputs ==
    { entropyToMnemonic([i \in 1..(MnemonicWords - 1) |-> 3]),
      [i \in 1..MnemonicWords |-> IF i = MnemonicWords THEN "ability" ELSE "abandon"],
      << "abandon" >>,
      <<>> }
HardwareKeyInputs == { << "H", "w", "1" >>, <<>> }
PasswordInputs == { PwdA, PwdShort, <<>> }
Networks == { "devnet", "testnet", "mainnet-beta" }

stepWalletSetup ==
    /\ pc = "stepWalletSetup"
    /\ Enter(IF flags.skipWallet THEN ReturnFrom("stepWalletSetup")
             ELSE IF config.wallet # null THEN "ask_manageWallet"
             ELSE "ask_walletAction")

\* A mutant of KeepsWallet: no answer keeps the wallet.
KeepsWallet_never(manageWallet) == FALSE

\* if (manageWallet === 'keep'): the step returns.
KeepsWallet(manageWallet) == manageWallet = "keep"

AnswerManageWallet ==
    /\ pc = "ask_manageWallet"
    /\ \E manageWallet \in ListAnswers({ "keep", "new", "import", "hardware" }) :
           /\ local' = [local EXCEPT !.manageWallet = manageWallet]
           /\ pc' = IF KeepsWallet(manageWallet) THEN ReturnFrom("stepWalletSetup")
                    ELSE "ask_walletAction"
           /\ UNCHANGED <<config, configFile, walletFile, interrupted, entryConfig,
                          seedLog, shown, rng, fixedVars>>

\* A mutant of WalletCatchPc: the error is not caught in the step, and main's
\* catch ends the process.
WalletCatchPc_uncaught == "exit1"

\* A mutant of WalletCatchPc: after an error the setup method is asked for again.
WalletCatchPc_retry == "ask_walletAction"

\* Where an error thrown in the try of the wallet step leads: to the catch, and
\* from there to the last prompt of the step.
WalletCatchPc == "ask_walletContinue"

\* The catch of the wallet step: the message is shown, the last prompt follows.
WalletCatch(loc, message) ==
    /\ local' = [loc EXCEPT !.error = message]
    /\ pc' = WalletCatchPc
    /\ UNCHANGED <<config, configFile, walletFile, interrupted, entryConfig, shown, rng,
                   fixedVars>>

\* The line printed where a seed phrase is due: the phrase, or a placeholder.
Placeholder == << "[Seed phrase would be shown here in production]" >>
SeedPhraseLine(walletData) ==
    IF Has(walletData, "seedPhrase") THEN walletData.seedPhrase ELSE Placeholder

\* A mutant of ShowsSeedPhrase: the seed phrase is never printed.
ShowsSeedPhrase_never(walletAction) == FALSE

\* Whether the wallet step prints the seed phrase after the save.
ShowsSeedPhrase(walletAction) == walletAction = "create"

\* The wallet step from "Save wallet" to its network prompt: the keystore file is
\* written, the configuration is assigned and saved, the wallet is shown (with
\* the seed phrase of a wallet just created).
SaveWallet(loc, encryptedData) ==
    LET walletConfig == WalletConfig(loc.walletData, encryptedData)
        c == [config EXCEPT !.wallet = walletConfig]
    IN  /\ walletFile' = JsonWallet(walletConfig)
        /\ config' = c
        /\ configFile' = saveConfig(c)
        /\ shown' = IF ShowsSeedPhrase(loc.walletAction)
                    THEN Append(shown, SeedPhraseLine(loc.walletData))
                    ELSE shown
        /\ local' = loc
        /\ pc' = "ask_network"
        /\ UNCHANGED <<interrupted, entryConfig, fixedVars>>

\* The wallet step once the switch has run with what an entry point returned or
\* threw: the password prompt when there is a secret key, else the save.
AfterSwitch(loc, result) ==
    /\ seedLog' = seedLog \cup result.seeded
    /\ IF result.threw
       THEN WalletCatch(loc, result.message)
       ELSE LET l == [loc EXCEPT !.walletData = result.value]
            IN  IF Has(result.value, "rawSecretKey")
                THEN /\ local' = l
                     /\ pc' = "ask_password"
                     /\ UNCHANGED <<config, configFile, walletFile, interrupted,
                                    entryConfig, shown, rng, fixedVars>>
                ELSE SaveWallet(l, null) /\ UNCHANGED rng

AnswerWalletAction ==
    /\ pc = "ask_walletAction"
    /\ \E walletAction \in
              ListAnswers({ "create", "import-key", "import-seed", "hardware", "skip" }) :
           LET loc == [local EXCEPT !.walletAction = walletAction]
           IN  CASE walletAction = "skip" ->
                        /\ local' = loc
                        /\ pc' = ReturnFrom("stepWalletSetup")
                        /\ UNCHANGED <<config, configFile, walletFile, interrupted,
                                       entryConfig, seedLog, shown, rng, fixedVars>>
                 [] walletAction = "create" ->
                        \E entropy \in WizardEntropies :
                            AfterSwitch(loc, generateNewWallet(sdk, entropy))
                 [] walletAction \in { "import-key", "import-seed", "hardware" } ->
                        /\ local' = loc
                        /\ pc' = CASE walletAction = "import-key" -> "ask_privateKey"
                                   [] walletAction = "import-seed" -> "ask_seedPhrase"
                                   [] OTHER -> "ask_hardwareKey"
                        /\ UNCHANGED <<config, configFile, walletFile, interrupted,
                                       entryConfig, seedLog, shown, rng, fixedVars>>
                 [] OTHER -> AfterSwitch(loc, Return(EmptyObject))

AnswerPrivateKey ==
    /\ pc = "ask_privateKey"
    /\ \E privateKey \in TextAnswers(PrivateKeyInputs) :
           AfterSwitch([local EXCEPT !.privateKey = privateKey],
                       importFromPrivateKey(sdk, privateKey))

AnswerSeedPhrase ==
    /\ pc = "ask_seedPhrase"
    /\ \E seedPhrase \in TextAnswers(SeedPhraseInputs) :
           AfterSwitch([local EXCEPT !.seedPhrase = seedPhrase],
                       importFromSeedPhrase(sdk, seedPhrase))

\* A mutant of connectHardwareWallet: the wallet returned carries a secret key.
connectHardwareWallet_withSecret(publicKey) ==
    Return([publicKey |-> publicKey, type |-> "hardware", network |-> "devnet",
            encryptedKey |-> null, rawSecretKey |-> [i \in 1..(2 * SeedLen) |-> 0]])

\* connectHardwareWallet(), publicKey being what its prompt resolved to.
connectHardwareWallet(publicKey) ==
    Return([publicKey |-> publicKey, type |-> "hardware", network |-> "devnet",
            encryptedKey |-> null])

\* The prompt of connectHardwareWallet: inquirer asks again until validate accepts
\* the text.
AnswerHardwareKey ==
    /\ pc = "ask_hardwareKey"
    /\ \E publicKey \in TextAnswers(IF inquirer
                                     THEN { t \in HardwareKeyInputs : Len(t) > 0 }
                                     ELSE HardwareKeyInputs) :
           AfterSwitch(local, connectHardwareWallet(publicKey))

\* The password prompt: inquirer asks again until validate accepts the text.
AnswerPassword ==
    /\ pc = "ask_password"
    /\ \E password \in TextAnswers(IF inquirer
                                    THEN { t \in PasswordInputs : Len(t) >= MinPasswordLen }
                                    ELSE PasswordInputs) :
           /\ local' = [local EXCEPT !.password = password]
           /\ pc' = "ask_confirmPassword"
           /\ UNCHANGED <<config, configFile, walletFile, interrupted, entryConfig,
                          seedLog, shown, rng, fixedVars>>

\* The confirmation prompt, then the encryption and the save.
AnswerConfirmPassword ==
    /\ pc = "ask_confirmPassword"
    /\ \E confirmPassword \in TextAnswers(IF inquirer
                                           THEN { t \in PasswordInputs : t = local.password }
                                           ELSE PasswordInputs) :
           LET loc == [local EXCEPT !.confirmPassword = confirmPassword]
               secretKeyHex == ToHex(local.walletData.rawSecretKey)
           IN  /\ UNCHANGED seedLog
               /\ IF encryptKeyThrows(local.password)
                  THEN WalletCatch(loc, "The \"password\" argument must be of type string")
                  ELSE /\ SaveWallet(loc, encryptKey(secretKeyHex, local.password, rng))
                       /\ rng' = rng + 2

\* The network prompt: the answer is assigned to config.wallet and saved.
AnswerNetwork ==
    /\ pc = "ask_network"
    /\ \E network \in ListAnswers(Networks) :
           LET c == [config EXCEPT !.wallet.network = network]
           IN  /\ config' = c
               /\ configFile' = saveConfig(c)
               /\ pc' = "ask_walletContinue"
               /\ UNCHANGED <<walletFile, local, interrupted, entryConfig, seedLog, shown, rng,
                              fixedVars>>

AnswerWalletContinue ==
    /\ pc = "ask_walletContinue"
    /\ Goto(ReturnFrom("stepWalletSetup"))

(***************************************************************************)
(* The last two steps.                                                     *)
(***************************************************************************)
AdvancedAnswers == { [rpcEndpoint |-> "", logLevel |-> "info", autoUpdate |-> TRUE] }

stepFinalConfiguration ==
    /\ pc = "stepFinalConfiguration"
    /\ Enter("ask_configureAdvanced")

AnswerConfigureAdvanced ==
    /\ pc = "ask_configureAdvanced"
    /\ \E configureAdvanced \in BOOLEAN :
           Goto(IF configureAdvanced THEN "ask_advanced" ELSE ReturnFrom("stepFinalConfiguration"))

AnswerAdvanced ==
    /\ pc = "ask_advanced"
    /\ \E advancedConfig \in AdvancedAnswers :
           SaveAndGoto([config EXCEPT !.preferences = Merge(@, advancedConfig)],
                       ReturnFrom("stepFinalConfiguration"))

stepSummary ==
    /\ pc = "stepSummary"
    /\ Enter("ask_launchNow")

AnswerLaunchNow ==
    /\ pc = "ask_launchNow"
    /\ \E launchNow \in BOOLEAN :
           Goto(IF launchNow THEN "await_launch" ELSE ReturnFrom("stepSummary"))

\* openclaw --version has ended, with success or not: main returns.
LaunchFinished ==
    /\ pc = "await_launch"
    /\ Goto(ReturnFrom("stepSummary"))

(***************************************************************************)
(* The SIGINT handler, and the wizard as a whole.                          *)
(***************************************************************************)
\* A mutant of SigintExit: the handler returns and main goes on from where it was.
SigintExit_resume(at) == at

\* process.exit(0) at the end of the handler.
SigintExit(at) == "exit0"

\* process.on('SIGINT'): the handler runs when main is suspended; it saves the
\* configuration in memory and ends the process.
Sigint ==
    /\ pc \in SuspensionPoints
    /\ interrupted = "no"
    /\ configFile' = saveConfig(config)
    /\ interrupted' = pc
    /\ pc' = SigintExit(pc)
    /\ UNCHANGED <<config, walletFile, local, entryConfig, seedLog, shown, rng, fixedVars>>

Next ==
    \/ Main
    \/ stepWelcome
    \/ AnswerProceed
    \/ stepCheckDependencies
    \/ AnswerDepsContinue
    \/ stepInstallOpenClaw
    \/ AnswerReinstall
    \/ AnswerInstallMethod
    \/ InstallFinished
    \/ AnswerInstallContinue
    \/ stepOnboarding
    \/ AnswerRedo
    \/ AnswerOnboarding
    \/ AnswerOnboardingContinue
    \/ stepSkillsSetup
    \/ AnswerSetupSkills
    \/ AnswerSelectedSkills
    \/ SkillsFinished
    \/ AnswerSkillsContinue
    \/ stepWalletSetup
    \/ AnswerManageWallet
    \/ AnswerWalletAction
    \/ AnswerPrivateKey
    \/ AnswerSeedPhrase
    \/ AnswerHardwareKey
    \/ AnswerPassword
    \/ AnswerConfirmPassword
    \/ AnswerNetwork
    \/ AnswerWalletContinue
    \/ stepFinalConfiguration
    \/ AnswerConfigureAdvanced
    \/ AnswerAdvanced
    \/ stepSummary
    \/ AnswerLaunchNow
    \/ LaunchFinished
    \/ Sigint

Spec == Init /\ [][Next]_vars

(***************************************************************************)
(* Properties of the wizard.                                               *)
(***************************************************************************)
\* The wallet records on disk: the keystore file and the wallet of the
\* configuration file.
PersistedWallets ==
    (IF walletFile = Absent THEN {} ELSE { walletFile })
        \cup (IF configFile = Absent \/ configFile.wallet = null THEN {}
              ELSE { configFile.wallet })

EncryptedFields == { "encrypted", "salt", "iv", "authTag" }

\* C1: every wallet record of type local or imported that is on disk, in the
\* keystore file or in the configuration file, has an encryptedKey that is not
\* null and holds the four fields encrypted, salt, iv and authTag.
C1_PersistedWalletIsEncrypted ==
    \A w \in PersistedWallets :
        w.type \in { "local", "imported" }
        => (w.encryptedKey # null /\ DOMAIN w.encryptedKey = EncryptedFields)

\* The texts that are the secret of the wallet the running step holds: the secret
\* key in hex, the secret key in base58, the text typed at the key prompt, the
\* mnemonic.
SecretTexts(walletData) ==
    IF ~Has(walletData, "rawSecretKey") THEN {}
    ELSE { ToHex(walletData.rawSecretKey), Bs58Encode(walletData.rawSecretKey),
           walletData.base58Key }
            \cup (IF Has(walletData, "seedPhrase") THEN { walletData.seedPhrase } ELSE {})

ConfigFields == { "version", "installed", "installMethod", "wallet", "skills",
                  "preferences", "onboardingComplete" }

\* C2: a wallet record on disk has no property other than publicKey, network,
\* createdAt, type and encryptedKey; its publicKey is no text of the secret key or
\* mnemonic of the wallet being set up, its encryptedKey is null or the four hex
\* fields of the vault, and the configuration file has no property that could
\* hold the secret.
C2_NoPlaintextSecretPersisted ==
    /\ configFile # Absent => DOMAIN configFile \subseteq ConfigFields
    /\ \A w \in PersistedWallets :
        /\ DOMAIN w \subseteq WalletFields
        /\ Get(w, "publicKey") \notin SecretTexts(local.walletData)
        /\ w.network \in Networks \cup { "1" }
        /\ w.type \in { "local", "imported", "hardware" }
        /\ w.createdAt \in { Now, Earlier }
        /\ \/ w.encryptedKey = null
           \/ /\ DOMAIN w.encryptedKey = EncryptedFields
              /\ \A f \in EncryptedFields : DOMAIN w.encryptedKey[f] = { "hex" }
              /\ DOMAIN BytesOf(w.encryptedKey.encrypted)
                    = { "algorithm", "key", "iv", "plain" }

\* C2 witness: a wallet was created with its mnemonic and saved to both files under
\* a password.
C2_Witness ==
    /\ pc = "ask_network"
    /\ local.walletAction = "create"
    /\ Has(local.walletData, "seedPhrase")
    /\ walletFile # Absent
    /\ walletFile.createdAt = Now
    /\ walletFile.encryptedKey # null
    /\ configFile.wallet = walletFile

\* The suspension points of a step before the step has saved anything, and those
\* of a step that has not done all its work.
BeforeSave ==
    { "ask_reinstall", "ask_installMethod", "await_install", "ask_redo",
      "ask_onboarding", "ask_setupSkills", "ask_selectedSkills", "await_skills",
      "ask_manageWallet", "ask_walletAction", "ask_privateKey", "ask_seedPhrase",
      "ask_hardwareKey", "ask_password", "ask_confirmPassword",
      "ask_configureAdvanced", "ask_advanced" }
Unfinished == BeforeSave \cup { "ask_network" }

InterruptSaved ==
    interrupted # "no"
    => /\ pc = "exit0"
       /\ configFile = saveConfig(config)
       /\ interrupted \in BeforeSave => configFile = saveConfig(entryConfig)
       /\ interrupted = "ask_network"
            => /\ configFile = saveConfig([entryConfig EXCEPT !.wallet = config.wallet])
               /\ configFile.wallet = walletFile

C7_InvalidMnemonicIsRejected ==
    (local.seedPhrase # NotAsked /\ ~validateMnemonic(local.seedPhrase))
    => /\ local.error = (IF sdk THEN InvalidSeedPhrase ELSE SdkRequired)
       /\ pc \in { "ask_walletContinue", "stepFinalConfiguration", "exit0" }
       /\ local.seedPhrase \notin seedLog
       /\ local.walletData = EmptyObject
       /\ walletFile = disk0.wallet
       /\ config.wallet = entryConfig.wallet
       /\ configFile # Absent => configFile.wallet = JsonWallet(entryConfig.wallet)

\* C7 witness: a phrase with a wrong checksum word was typed, and the import threw
\* Invalid seed phrase.
C7_Witness ==
    /\ local.seedPhrase
         = [i \in 1..MnemonicWords |-> IF i = MnemonicWords THEN "ability" ELSE "abandon"]
    /\ local.error = InvalidSeedPhrase
    /\ pc = "ask_walletContinue"

\* The message Keypair.fromSecretKey throws for a key of the wrong size.
InvalidKeyLength == "bad secret key size"

\* The wallet of a configuration file, null when there is no file.
WalletOf(file) == IF file = Absent THEN null ELSE file.wallet

\* The wallet step has left both files as the process found them.
WalletUntouched ==
    /\ walletFile = disk0.wallet
    /\ config.wallet = entryConfig.wallet
    /\ WalletOf(configFile) = JsonWallet(WalletOf(disk0.config))

\* The keystore file holds a record this run wrote.
WrittenNow == walletFile # Absent /\ walletFile.createdAt = Now

\* C11: when the text typed at the key prompt decodes to a number of bytes other
\* than the size of a secret key (and the SDK is loaded), the import throws the
\* size error of Keypair.fromSecretKey, which is neither the format error nor
\* another error of the step, the step holds no wallet and leaves for its last
\* prompt, and neither file gets a wallet record.
C11_WrongLengthKeyRejected ==
    (local.privateKey # NotAsked /\ sdk /\ DecodeSecretKey(local.privateKey).ok
        /\ Len(DecodeSecretKey(local.privateKey).bytes) # 2 * SeedLen)
    => /\ local.error = InvalidKeyLength
       /\ local.error \notin { InvalidKeyFormat, SdkRequired, InvalidSeedPhrase,
                               "provided secretKey is invalid" }
       /\ pc \in { "ask_walletContinue", "stepFinalConfiguration", "exit0" }
       /\ local.walletData = EmptyObject
       /\ WalletUntouched

\* C11 witness: a base58 text of one byte too many was typed, and the import threw
\* the size error.
C11_Witness ==
    /\ local.privateKey = LongKey
    /\ local.error = InvalidKeyLength
    /\ pc = "ask_walletContinue"

\* C12: on the hardware path no password is asked for and encryptKey is not
\* called (no random bytes are drawn), and once the public key prompt has
\* resolved, the record in the keystore file has type hardware, the public key
\* the prompt resolved to and a null encryptedKey, as has the wallet of the
\* configuration file.
C12_HardwareSkipsEncryption ==
    local.walletAction = "hardware"
    => /\ local.password = NotAsked
       /\ local.confirmPassword = NotAsked
       /\ pc \notin { "ask_password", "ask_confirmPassword" }
       /\ rng = 0
       /\ local.error = ""
       /\ local.walletData # EmptyObject
            => /\ walletFile
                    = JsonWallet([publicKey |-> local.walletData.publicKey,
                                  network |-> "devnet", createdAt |-> Now,
                                  type |-> "hardware", encryptedKey |-> null])
               /\ configFile.wallet
                    = [walletFile EXCEPT !.network = config.wallet.network]

\* C12 witness: a hardware public key was typed and the record was saved.
C12_Witness ==
    /\ local.walletAction = "hardware"
    /\ pc = "ask_network"
    /\ WrittenNow
    /\ walletFile.type = "hardware"
    /\ Has(walletFile, "publicKey")
    /\ walletFile.publicKey = << "H", "w", "1" >>
    /\ walletFile.encryptedKey = null

\* C13: the password every encrypted wallet record on disk was encrypted under has
\* MinPasswordLen characters or more.
C13_PasswordHasMinimumLength ==
    \A w \in PersistedWallets :
        w.encryptedKey # null
        => Len(BytesOf(w.encryptedKey.encrypted).key.password) >= MinPasswordLen

\* C14: nothing is printed as a seed phrase more than once in a run; while the
\* wallet step holds a wallet made by create, its seed phrase has been printed
\* (once, and nothing else) exactly when the wallet is in the keystore file; on
\* the other paths of the step nothing is printed; and what was printed is a valid
\* mnemonic, that of the encrypted local wallet in the keystore file.
C14_MnemonicShownOnce ==
    /\ Len(shown) <= 1
    /\ local.walletAction = "create"
        => IF WrittenNow THEN shown = << Get(local.walletData, "seedPhrase") >>
           ELSE shown = <<>>
    /\ local.walletAction \notin { "", "create" } => shown = <<>>
    /\ shown # <<>>
        => /\ validateMnemonic(shown[1])
           /\ WrittenNow
           /\ walletFile.type = "local"
           /\ walletFile.encryptedKey # null
           /\ walletFile.publicKey = WalletFromPhrase(shown[1], SolanaPath).publicKey

\* C14 witness: a wallet was created and saved, and its seed phrase was printed.
C14_Witness ==
    /\ local.walletAction = "create"
    /\ pc = "ask_network"
    /\ WrittenNow
    /\ shown = << local.walletData.seedPhrase >>

\* C15: after an import failed with the format, size or validation error, the
\* wizard is at the question it asked (unless it was interrupted).
C15_ImportErrorAsksAgain ==
    interrupted = "no"
    => /\ local.error = InvalidSeedPhrase => pc = "ask_seedPhrase"
       /\ local.error \in { InvalidKeyFormat, InvalidKeyLength } => pc = "ask_privateKey"

\* C16: once an error was thrown in the wallet step, the keystore file, the wallet
\* of the configuration and the configuration in memory are those the step was
\* entered with, the configuration file is the one the process found or the one
\* last saved from that configuration, and nothing was printed as a seed phrase;
\* the throw itself changes no file and leads to the last prompt of the step,
\* from which the wizard goes on to the final configuration step.
AbortFrame ==
    local.error # ""
    => /\ WalletUntouched
       /\ config = entryConfig
       /\ configFile \in { disk0.config, saveConfig(entryConfig) }
       /\ shown = <<>>
       /\ pc \in { "ask_walletContinue", "stepFinalConfiguration", "exit0" }
       /\ pc = "exit0" => interrupted = "ask_walletContinue"

C16_AbortLeavesFilesAndGoesOn ==
    /\ []AbortFrame
    /\ [][(local.error = "" /\ local'.error # "")
            => (UNCHANGED <<walletFile, configFile, config>>
                /\ pc' = "ask_walletContinue")]_vars
    /\ [][(local.error # "" /\ pc = "ask_walletContinue" /\ interrupted' = "no")
            => pc' = "stepFinalConfiguration"]_vars

\* C16 witness: create failed for want of the SDK in a run that had saved the
\* onboarding answers, and the wizard went on to the final configuration.
C16_Witness ==
    /\ local.error = SdkRequired
    /\ local.walletAction = "create"
    /\ pc = "stepFinalConfiguration"
    /\ configFile # disk0.config
    /\ configFile = saveConfig(entryConfig)

TypeOfAction(walletAction) ==
    CASE walletAction = "create" -> "local"
      [] walletAction \in { "import-key", "import-seed" } -> "imported"
      [] walletAction = "hardware" -> "hardware"
      [] OTHER -> "no type"

\* C18: the record the running wallet step wrote to the keystore file has a
\* publicKey that is a text, and the type of the action that was chosen.
C18_KeystoreRecordWellFormed ==
    (WrittenNow /\ local.walletAction # "")
    => /\ Has(walletFile, "publicKey")
       /\ walletFile.type = TypeOfAction(local.walletAction)

\* C19: the network of every wallet record on disk is devnet, testnet or
\* mainnet-beta.
C19_NetworkIsKnown ==
    \A w \in PersistedWallets : w.network \in Networks

WalletPrompts ==
    { "ask_manageWallet", "ask_walletAction", "ask_privateKey", "ask_seedPhrase",
      "ask_hardwareKey", "ask_password", "ask_confirmPassword", "ask_network",
      "ask_walletContinue" }

PointsOf ==
    [stepWelcome |-> { "ask_proceed" },
     stepCheckDependencies |-> { "ask_depsContinue" },
     stepInstallOpenClaw |-> { "ask_reinstall", "ask_installMethod", "await_install",
                               "ask_installContinue" },
     stepOnboarding |-> { "ask_redo", "ask_onboarding", "ask_onboardingContinue" },
     stepSkillsSetup |-> { "ask_setupSkills", "ask_selectedSkills", "await_skills",
                           "ask_skillsContinue" },
     stepWalletSetup |-> WalletPrompts,
     stepFinalConfiguration |-> { "ask_configureAdvanced", "ask_advanced" },
     stepSummary |-> { "ask_launchNow", "await_launch" }]

\* The number of the step that is suspended at p, 0 when none is.
Running(p) ==
    IF \E i \in 1..Len(Steps) : p \in PointsOf[Steps[i]]
    THEN CHOOSE i \in 1..Len(Steps) : p \in PointsOf[Steps[i]]
    ELSE 0

\* main is at the line that awaits a step.
AtLine(p) == \E i \in 1..Len(Steps) : p = Steps[i]

\* How far main has come at p: 0 before its first step, i at the line that awaits
\* step i and inside that step, Len(Steps) + 1 when the process has ended.
Place(p) ==
    IF p = "main" THEN 0
    ELSE IF AtLine(p) THEN StepNumber(p)
    ELSE IF Running(p) # 0 THEN Running(p)
    ELSE Len(Steps) + 1

\* C21: main never moves back; it reaches the line that awaits step i only from
\* before that line, from its previous line (that step is skipped) or from
\* inside the previous step (that step has returned), so the steps run in the
\* order welcome, dependency check, installation, onboarding, skills, wallet,
\* final configuration, summary and none runs twice; a step is entered only from
\* main's line for it, so not before the step run before it has returned; and
\* the answer to a prompt resumes the step the prompt belongs to, which goes on
\* or returns to main's next line (or ends the process).
C21_StepsRunInOrderOnce ==
    [][pc' # pc
        => /\ Place(pc') >= Place(pc)
           /\ AtLine(pc')
                => /\ Place(pc') = Place(pc) + 1
                   /\ pc = "main" \/ AtLine(pc) \/ Running(pc) = Place(pc)
           /\ (Running(pc') # 0 /\ Running(pc') # Running(pc))
                => pc = Steps[Running(pc')]
           /\ Running(pc) # 0
                => \/ Running(pc') = Running(pc)
                   \/ pc' = ReturnFrom(Steps[Running(pc)])
                   \/ pc' \in { "exit0", "exit1" }]_vars

\* C21 witness: in a run that found no file, the installation, the onboarding
\* and the wallet step have run and saved, and the summary step is at its
\* prompt.
C21_Witness ==
    /\ pc = "ask_launchNow"
    /\ disk0.config = Absent
    /\ config.installed
    /\ config.onboardingComplete
    /\ WrittenNow
    /\ config.wallet # null

\* C22: when the wallet step has saved a wallet and its network prompt has been
\* answered, the record in the keystore file and the wallet of the configuration
\* file have the same publicKey, network, type, createdAt and encryptedKey.
C22_KeystoreAndConfigAgree ==
    (WrittenNow /\ local.error = ""
        /\ pc \in { "ask_walletContinue", ReturnFrom("stepWalletSetup") })
    => \A f \in WalletFields : Get(walletFile, f) = Get(configFile.wallet, f)

\* C23: when the wallet step has encrypted a key, the text typed at the
\* confirmation prompt equals the password the key was encrypted under.
C23_EncryptedUnderConfirmedPassword ==
    (local.confirmPassword # NotAsked /\ WrittenNow /\ walletFile.encryptedKey # null)
    => /\ BytesOf(walletFile.encryptedKey.encrypted).key.password = local.password
       /\ local.confirmPassword = local.password

\* C24: once Keep current wallet was answered for a configured wallet, or Skip for
\* now at the setup method prompt, the wallet step has returned: main is at its
\* next line, no password was asked for, nothing was encrypted or printed, and
\* the keystore file, the wallet of the configuration and the wallet of the
\* configuration file are those the step found; after Keep the setup method was
\* not asked for either.
C24_KeepAndSkipLeaveWalletAlone ==
    (local.manageWallet = "keep" \/ local.walletAction = "skip")
    => /\ pc = ReturnFrom("stepWalletSetup")
       /\ local.password = NotAsked
       /\ local.confirmPassword = NotAsked
       /\ local.walletData = EmptyObject
       /\ rng = 0
       /\ shown = <<>>
       /\ WalletUntouched
       /\ local.manageWallet = "keep"
            => (local.walletAction = "" /\ config.wallet = EarlierWallet)

\* C24 witness: the wallet of an earlier run was kept.
C24_Witness ==
    /\ local.manageWallet = "keep"
    /\ pc = ReturnFrom("stepWalletSetup")
    /\ walletFile = EarlierWallet
    /\ configFile.wallet = EarlierWallet

\* C25: wherever main is suspended (the places the SIGINT handler can run at), the
\* configuration file is the JSON text of the configuration in memory, unless
\* there is no file yet and the configuration in memory is still the default one
\* that was loaded.
C25_ConfigSavedAtSuspension ==
    pc \in SuspensionPoints
    => \/ configFile = JsonStringify(config)
       \/ /\ configFile = Absent
          /\ disk0.config = Absent
          /\ config = DefaultConfig

\* C25 witness: the wallet step has assigned config.wallet and is suspended at its
\* network prompt, the file holding the wallet.
C25_Witness ==
    /\ pc = "ask_network"
    /\ WrittenNow
    /\ config.wallet # entryConfig.wallet
    /\ configFile = JsonStringify(config)

\* The installation step is running, or has just returned to main.
InInstallStep ==
    \/ pc \in PointsOf.stepInstallOpenClaw
    \/ pc = ReturnFrom("stepInstallOpenClaw") /\ ~flags.skipInstall

\* The installation step has left the configuration and its file as it found them.
InstallUntouched == config = entryConfig /\ configFile = disk0.config

\* C26: in the installation step, the configuration differs from the one the step
\* was entered with only once the install commands have succeeded, and then the
\* flag is true, the method is the one chosen and the file holds both; after a
\* failed command, and after Skip installation, the configuration and its file
\* are those the step found; and from its last prompt, as from Skip, the wizard
\* goes on to main's next line (unless it is interrupted).
InstallFrame ==
    InInstallStep
    => /\ local.spinner = "succeed"
            => /\ config = Merge(entryConfig, [installed |-> TRUE,
                                               installMethod |-> local.installMethod])
               /\ configFile = saveConfig(config)
               /\ local.installMethod # "skip"
       /\ local.spinner # "succeed" => InstallUntouched
       /\ local.spinner # "" => pc \in { "ask_installContinue",
                                         ReturnFrom("stepInstallOpenClaw") }
       /\ local.installMethod = "skip"
            => (pc = ReturnFrom("stepInstallOpenClaw") /\ local.spinner = "")

C26_InstalledOnlyAfterSuccess ==
    /\ []InstallFrame
    /\ [][(pc = "ask_installContinue" /\ interrupted' = "no")
            => (pc' = ReturnFrom("stepInstallOpenClaw")
                /\ UNCHANGED <<config, configFile>>)]_vars
    /\ [][(pc = "await_install" /\ interrupted' = "no" /\ ~config'.installed)
            => (local'.spinner = "fail" /\ UNCHANGED <<config, configFile>>)]_vars

\* C26 witness: the install command failed in a first run, and the step has
\* returned with the flag still false and no file written.
C26_Witness ==
    /\ local.spinner = "fail"
    /\ pc = ReturnFrom("stepInstallOpenClaw")
    /\ ~config.installed
    /\ configFile = Absent

(***************************************************************************)
(* Termination.                                                            *)
(***************************************************************************)
\* The wizard when every prompt is answered in the end and every child process
\* ends: no step that can be taken is put off for ever.
SpecLive == Spec /\ WF_vars(Next)

\* The process has ended: main returned, or process.exit ran.
Ended == pc \in { "done", "exit0", "exit1" }

\* The positions of main in the order of the source text.
Order ==
    << "main",
       "stepWelcome", "ask_proceed",
       "stepCheckDependencies", "ask_depsContinue",
       "stepInstallOpenClaw", "ask_reinstall", "ask_installMethod", "await_install",
       "ask_installContinue",
       "stepOnboarding", "ask_redo", "ask_onboarding", "ask_onboardingContinue",
       "stepSkillsSetup", "ask_setupSkills", "ask_selectedSkills", "await_skills",
       "ask_skillsContinue",
       "stepWalletSetup", "ask_manageWallet", "ask_walletAction", "ask_privateKey",
       "ask_seedPhrase", "ask_hardwareKey", "ask_password", "ask_confirmPassword",
       "ask_network", "ask_walletContinue",
       "stepFinalConfiguration", "ask_configureAdvanced", "ask_advanced",
       "stepSummary", "ask_launchNow", "await_launch",
       "done", "exit0", "exit1" >>
Pos(p) == CHOOSE i \in 1..Len(Order) : Order[i] = p

\* C27: when every prompt is answered and every child process ends, the process
\* ends; and main only moves forward in the text of the program, so that it is
\* suspended at each prompt and each child process at most once (at most
\* Cardinality(SuspensionPoints) suspensions in a run), and once the process has
\* ended nothing happens.
C27_WizardTerminates ==
    /\ <>Ended
    /\ [][pc' # pc => Pos(pc') > Pos(pc)]_vars
    /\ [][~Ended]_vars
    /\ [](pc \in { Order[i] : i \in 1..Len(Order) })

\* C27 witness: main has returned after the last step of a run that asked for
\* the launch.
C27_Witness ==
    /\ pc = "done"
    /\ ~flags.skipInstall
    /\ config.installed
    /\ config.onboardingComplete
    /\ WrittenNow
(***************************************************************************)
(* The vault as a pure function: encryptKey and decrypt applied to keys    *)
(* and passwords drawn from small sets, in one process (one rng).          *)
(***************************************************************************)
VaultKeys == { << "d", "e", "a", "d", "b", "e", "e", "f" >>, << "0", "1" >> }
VaultPasswords == { PwdA, PwdB, PwdShort }

EntryFields == { "encrypted", "salt", "iv", "authTag" }
Garbage == HexOf([garbage |-> TRUE])
\* The values a stored field can be altered to: the same field of another entry, or
\* bytes no encryption produced.
AlteredValues(i, f) ==
    ({ calls[j].entry[f] : j \in 1..Len(calls) } \cup { Garbage }) \ { calls[i].entry[f] }

VaultInit ==
    /\ rng = 0
    /\ calls = <<>>
    /\ attempt = NoAttempt
    /\ sdk = TRUE
    /\ KeysIdle
    /\ WizardIdle

VaultEncrypt ==
    \E k \in VaultKeys, p \in VaultPasswords :
        /\ Len(calls) < MaxCalls
        /\ calls' = Append(calls, [key |-> k, password |-> p, entry |-> encryptKey(k, p, rng)])
        /\ rng' = rng + 2
        /\ UNCHANGED <<attempt, sdk, keysVars, wizardVars>>

VaultDecrypt ==
    \E i \in 1..Len(calls), p \in VaultPasswords :
        /\ attempt' = [call |-> i, password |-> p, altered |-> "none",
                       result |-> decrypt(calls[i].entry, p)]
        /\ UNCHANGED <<rng, calls, sdk, keysVars, wizardVars>>

VaultDecryptAltered ==
    \E i \in 1..Len(calls), p \in VaultPasswords, f \in EntryFields :
        \E v \in AlteredValues(i, f) :
            /\ attempt' = [call |-> i, password |-> p, altered |-> f,
                           result |-> decrypt([calls[i].entry EXCEPT ![f] = v], p)]
            /\ UNCHANGED <<rng, calls, sdk, keysVars, wizardVars>>

VaultNext == VaultEncrypt \/ VaultDecrypt \/ VaultDecryptAltered

SpecVault == VaultInit /\ [][VaultNext]_vars

\* C3: decrypting an entry as encryptKey returned it, with the password it was
\* encrypted under, succeeds and returns exactly the key that was encrypted.
C3_RoundTrip ==
    (attempt.call # 0 /\ attempt.altered = "none"
        /\ attempt.password = calls[attempt.call].password)
    => (attempt.result.ok /\ attempt.result.plain = calls[attempt.call].key)

\* C3 witness: an unaltered entry was decrypted with its own password, and the key
\* came back.
C3_Witness ==
    /\ attempt.call # 0
    /\ attempt.altered = "none"
    /\ attempt.password = calls[attempt.call].password
    /\ attempt.result.plain = << "d", "e", "a", "d", "b", "e", "e", "f" >>

\* C4: decrypting with a password other than the one the entry was encrypted
\* under, or decrypting an entry one of whose four fields was altered, fails with
\* WrongPasswordOrCorrupted and returns no plaintext.
C4_WrongPasswordFails ==
    (attempt.call # 0
        /\ (attempt.password # calls[attempt.call].password \/ attempt.altered # "none"))
    => (/\ ~attempt.result.ok
        /\ attempt.result.error = WrongPasswordOrCorrupted
        /\ attempt.result.plain = undefined)

\* C4 witness: a decryption with the wrong password of an unaltered entry failed.
C4_Witness ==
    /\ attempt.call # 0
    /\ attempt.altered = "none"
    /\ attempt.password # calls[attempt.call].password
    /\ attempt.result.error = WrongPasswordOrCorrupted

\* C5: no two encryptKey calls of a process return the same salt, the same iv or
\* the same encrypted value, calls with the same key and password included.
C5_FreshSaltAndIv ==
    \A i, j \in 1..Len(calls) :
        i # j => /\ calls[i].entry.salt # calls[j].entry.salt
                 /\ calls[i].entry.iv # calls[j].entry.iv
                 /\ calls[i].entry.encrypted # calls[j].entry.encrypted

\* C5 witness: two calls with the same key and the same password were made.
C5_Witness ==
    /\ Len(calls) >= 2
    /\ calls[1].key = calls[2].key
    /\ calls[1].password = calls[2].password

(***************************************************************************)
(* The wallet entry points as pure functions: create, import by mnemonic   *)
(* and import by key applied in one process, the imports to the phrases    *)
(* and the encodings of the wallets created and to malformed inputs.       *)
(***************************************************************************)
\* The entropies create draws from here: all values of the last two entropy words.
KeysEntropies == { e \in Entropies : \A i \in 1..(Len(e) - 2) : e[i] = 0 }

\* Phrases validateMnemonic rejects: no string, a wrong checksum word, a word
\* outside the wordlist, too few words.
BadPhrases ==
    { undefined,
      [i \in 1..MnemonicWords |-> IF i = MnemonicWords THEN "ability" ELSE "abandon"],
      [i \in 1..MnemonicWords |-> IF i = 1 THEN "zebra" ELSE "abandon"],
      << "abandon" >> }

\* Key texts that are no encoding of a wallet's secret key: no string, the empty
\* text, characters of neither alphabet, a hex digit pair then a character of
\* neither alphabet, one byte in hex, a well-sized key whose halves do not match.
BadKeys ==
    { undefined,
      <<>>,
      << "z", "z", "!", "!" >>,
      << "0", "1", "!", "!" >>,
      << "0", "0" >>,
      ToHex([i \in 1..(2 * SeedLen) |-> 0]) }

ValidBase58(text) == IsString(text) /\ \A i \in 1..Len(text) : IsBase58Char(text[i])
ValidHex(text) ==
    IsString(text) /\ Len(text) % 2 = 0 /\ \A i \in 1..Len(text) : IsHexDigit(text[i])

KeysInit ==
    /\ sdk \in BOOLEAN
    /\ created = {}
    /\ lastCall = NoCall
    /\ rng = 0
    /\ VaultIdle
    /\ WizardIdle

KeysCreate ==
    \E e \in KeysEntropies :
        LET r == generateNewWallet(sdk, e)
        IN  /\ Cardinality(created) < MaxCalls
            /\ created' = IF r.threw THEN created ELSE created \cup { r.value }
            /\ lastCall' = [kind |-> "create", input |-> <<>>, result |-> r]
            /\ UNCHANGED <<rng, sdk, vaultVars, wizardVars>>

KeysImportSeed ==
    \E phrase \in { w.seedPhrase : w \in created } \cup BadPhrases :
        /\ lastCall' = [kind |-> "import-seed", input |-> phrase,
                        result |-> importFromSeedPhrase(sdk, phrase)]
        /\ UNCHANGED <<rng, sdk, created, vaultVars, wizardVars>>

KeysImportKey ==
    \E text \in { w.base58Key : w \in created }
                  \cup { ToHex(w.rawSecretKey) : w \in created } \cup BadKeys :
        /\ lastCall' = [kind |-> "import-key", input |-> text,
                        result |-> importFromPrivateKey(sdk, text)]
        /\ UNCHANGED <<rng, sdk, created, vaultVars, wizardVars>>

KeysNext == KeysCreate \/ KeysImportSeed \/ KeysImportKey

SpecKeys == KeysInit /\ [][KeysNext]_vars

\* C8: importing the mnemonic of a wallet that create returned succeeds and
\* yields the public key of that wallet.
C8_RecoveryFromMnemonic ==
    \A w \in created :
        (lastCall.kind = "import-seed" /\ lastCall.input = w.seedPhrase)
        => (~lastCall.result.threw /\ lastCall.result.value.publicKey = w.publicKey)

\* C8 witness: the mnemonic of a created wallet was imported and a wallet came back.
C8_Witness ==
    /\ lastCall.kind = "import-seed"
    /\ ~lastCall.result.threw
    /\ \E w \in created : lastCall.input = w.seedPhrase

\* C9: import-by-key decodes base58 first and hex only when base58 decoding
\* fails, and an input that is neither base58 nor hex fails with InvalidKeyFormat.
C9_EitherEncodingOrFormatError ==
    (lastCall.kind = "import-key" /\ sdk)
    => LET d == DecodeSecretKey(lastCall.input)
       IN  /\ ValidBase58(lastCall.input) => d.encoding = "base58"
           /\ d.encoding = "hex" => ~ValidBase58(lastCall.input)
           /\ (~ValidBase58(lastCall.input) /\ ~ValidHex(lastCall.input))
                => (lastCall.result.threw /\ lastCall.result.message = InvalidKeyFormat)

\* C10: importing the base58 encoding and importing the hex encoding of the
\* secret key of a created wallet both succeed with the public key of that wallet.
C10_Base58AndHexImportAgree ==
    \A w \in created :
        (lastCall.kind = "import-key"
            /\ lastCall.input \in { w.base58Key, ToHex(w.rawSecretKey) })
        => (~lastCall.result.threw /\ lastCall.result.value.publicKey = w.publicKey)

====
